---- MODULE Spec2Model ----
(***************************************************************************)
(* InfiniteStorageFace: the upload orchestrator of the six near-duplicate  *)
(* programs of the repository (app2.py, app3.py, app4.py, appBUENA.py,     *)
(* InfiniteStorageFace.py, streamlit_app.py).                              *)
(*                                                                         *)
(* One behaviour is one process running one of the six programs (variant). *)
(* The operator submits jobs (upload_files) and requests cancellation      *)
(* (cancel_upload); every run walks through authenticate, the repository   *)
(* check, the repository creation and the transfers, each Gateway call     *)
(* being one step whose outcome the environment chooses.                   *)
(***************************************************************************)
EXTENDS Integers, Sequences, FiniteSets, TLC

\* ------------------------------------------------------------- bounds ----
\* Entries of the source directory (os.listdir) of a job.
MaxItems == 2
\* Clicks on the cancel button in one behaviour.
MaxCancels == 1
\* Calls of log() by one thread, and polls of the log, in one behaviour of
\* the log sink.
MaxLogged == 2
MaxPolls == 2
\* Files of the repository listing given to get_remote_tree, and characters
\* of one file path.
MaxFiles == 2
MaxKeyLen == 3
\* Characters of the relative path given to the path filter, and patterns of
\* its pattern list.
MaxPathLen == 5
MaxPatterns == 2
\* Directories and files below the folder given to get_local_tree.
MaxNodes == 4

\* Two jobs: A is submitted first, B at any time after it (while A runs, or
\* once A has ended).
Jobs == {"A", "B"}

\* The writers of the log: "ui" for the handlers outside a run, and the runs.
Writers == {"ui"} \cup Jobs

VARIABLES
    variant,       \* which of the six programs this process runs
    ignored,       \* the units (0: the source folder) that hold a folder of
                   \* the name of an ignore pattern, ".git" (appBUENA)
    pc,            \* pc[j]: position of run j
    job,           \* job[j]: the arguments upload_files was called with
    listing,       \* listing[j]: what os.listdir(folder_path) returned to run j
    idx,           \* idx[j]: position of the for loop over the listing
    trace,         \* trace[j]: validation and Gateway calls of run j, in order
    logs,          \* logs[w]: the messages writer w passed to log(), in order
    final,         \* final[j]: status the run ended with
    future,        \* future[j]: the transfer run j handed to the Gateway
    answer,        \* answer[j]: how the Gateway answered the repository call
                   \* run j has just made ("none" once the run moved on)
    cancel_event,  \* the process-wide cancellation flag
    upload_lock,   \* "free", or the run that holds it
    uploading,     \* st.session_state.uploading
    log_queue,     \* the messages in log_queue (queue.Queue)
    shared_logs,   \* the list shared_logs
    logging,       \* logging[w]: the message thread w has put into log_queue
                   \* and not yet appended to shared_logs (<<>>: none)
    logged,        \* every message passed to log(), in the order of the calls
    polled,        \* what the polls of the log returned so far, concatenated
    polls,         \* number of polls so far
    files,         \* get_remote_tree: what list_repo_files returned
    tree,          \* get_remote_tree: the nodes of the tree built from it
    flat,          \* <<the paths of the leaves of the tree>>, <<>> before
    relative_path, \* has_files_to_upload: the file looked at
    ignore_patterns, \* has_files_to_upload: its pattern list
    decision,      \* "none", then "excluded", "included" or "error"
    folder,        \* get_local_tree: the directories and files below the
                   \* folder it is given
    local_tree     \* <<the keys of its dictionary tree>>, <<>> before

\* The state of the runs, and the state of the log sink.
run == <<ignored, pc, job, listing, idx, trace, logs, final, future, answer,
         cancel_event, upload_lock, uploading>>

sink == <<log_queue, shared_logs, logging, logged, polled, polls>>

\* The state of the views (the remote tree) and of the path filter.
filter == <<relative_path, ignore_patterns, decision>>

local == <<folder, local_tree>>

views == <<files, tree, flat, filter, local>>

vars == <<variant, run, sink, views>>

\* ----------------------------------------------------------- variants ----
Variants == {"app2", "app3", "app4", "BUENA", "ISF", "streamlit"}

\* upload_files starts a Thread(target=upload_process) and returns at once.
Threaded(v) == v \in {"app2", "app3", "ISF", "streamlit"}

\* upload_process runs under "with upload_lock:".
Locked(v) == v \in {"app2", "app3", "streamlit"}

\* upload_files rejects an empty source directory.
RejectsEmptyFolder(v) == v \in {"app3", "app4", "streamlit"}

\* create_repo_if_not_exists first lists the files of the repository.
ChecksExistence(v) == v # "app2"

\* create_repo_if_not_exists logs "does not exist, creating it".
LogsMissingRepo(v) == v \in {"app3", "app4", "BUENA"}

\* ------------------------------------------------------------- inputs ----
ItemKinds == {"dir", "file"}

\* The listings of a directory with at most n entries.
RECURSIVE Listings(_)
Listings(n) ==
    IF n = 0 THEN {<<>>}
    ELSE Listings(n - 1) \cup
         {Append(s, k) : s \in {t \in Listings(n - 1) : Len(t) = n - 1},
                         k \in ItemKinds}

\* What the source folder holds when upload_files looks into it: nothing,
\* only files that the ignore patterns of the variant match ("ignored"), or
\* files to upload.
ScanResults == {<<>>, <<"ignored">>, <<"file">>}

NoJob == [dirOK |-> FALSE, repoOK |-> FALSE, tokenOK |-> FALSE,
          individually |-> FALSE, scan |-> <<>>, subfolder |-> "",
          selected |-> FALSE,
          after |-> {}, presses |-> 0]

\* The jobs whose folders may be processed one by one (process_individually):
\* the first one; the job submitted after it uploads its folder as a whole.
IndividualJobs == {"A"}

\* The jobs that may name a subfolder of the repository as their target: the
\* first one; the job submitted after it targets the root.
TargetedJobs == {"A"}

\* The jobs that may come with a selection of ignore patterns: the first
\* one; the job submitted after it selects none.
SelectingJobs == {"A"}

\* The variants whose upload_files reads its subfolder argument before the
\* transfer (app2 and InfiniteStorageFace have none, streamlit_app reads it
\* for each file).
ReadsSubfolder(v) == v \in {"app3", "app4", "BUENA"}

\* The jobs the operator can submit as job j to variant v: whether
\* folder_path is a directory, whether repo_id has the owner/name shape,
\* whether the token is non-empty, process_individually, and what the folder
\* holds (scan).  A field the variant never reads is fixed: only appBUENA
\* has process_individually; it never tests the shape of repo_id, it reads
\* nothing but the token when the token is empty, and it does not look into
\* the folder before the transfers; nothing is seen of a folder that is not
\* there; selected is whether "Ignore .git" is among
\* ignore_patterns_selected, which only appBUENA has.  Both jobs name the
\* same folder.  The record keeps the moment of the call with the arguments:
\* the runs that had ended (after) and the number of times the operator had
\* pressed "Cancel Upload" (presses).
JobInputs(v, j) ==
    {jb \in [dirOK : BOOLEAN, repoOK : BOOLEAN, tokenOK : BOOLEAN,
             individually : BOOLEAN, scan : ScanResults,
             subfolder : {"", "sub"}, selected : BOOLEAN,
             after : {{k \in Jobs \ {j} : pc[k] = "done"}},
             presses : {Len(logs["ui"])}] :
        /\ jb.individually => v = "BUENA" /\ j \in IndividualJobs
        /\ jb.subfolder # "" => /\ ReadsSubfolder(v) /\ j \in TargetedJobs
                                /\ jb.dirOK /\ jb.repoOK /\ jb.tokenOK
        /\ jb.selected => /\ v = "BUENA" /\ j \in SelectingJobs
                          /\ jb.dirOK /\ jb.tokenOK
        /\ ~jb.dirOK => jb.scan = <<>>
        /\ v = "BUENA" => jb.scan = (IF jb.dirOK THEN <<"file">> ELSE <<>>)
        /\ v = "BUENA" => /\ jb.repoOK
                          /\ ~jb.dirOK => ~jb.individually
                          /\ ~jb.tokenOK => jb.dirOK /\ ~jb.individually}

\* ------------------------------------------------------------ helpers ----
Call(op, res, unit) == [op |-> op, res |-> res, unit |-> unit]

Msg(text, unit) == <<text, unit>>

\* ---------------------------------------------------------------- Init ----
\* No job was submitted yet.
Idle ==
    /\ pc = [j \in Jobs |-> "idle"]
    /\ job = [j \in Jobs |-> NoJob]
    /\ listing = [j \in Jobs |-> <<>>]
    /\ idx = [j \in Jobs |-> 0]
    /\ trace = [j \in Jobs |-> <<>>]
    /\ logs = [w \in Writers |-> <<>>]
    /\ final = [j \in Jobs |-> "none"]
    /\ future = [j \in Jobs |-> "none"]
    /\ answer = [j \in Jobs |-> "none"]
    /\ cancel_event = FALSE
    /\ upload_lock = "free"
    /\ uploading = FALSE

\* Nothing was logged yet.
SinkEmpty ==
    /\ log_queue = <<>>
    /\ shared_logs = <<>>
    /\ logging = [w \in Jobs |-> <<>>]
    /\ logged = <<>>
    /\ polled = <<>>
    /\ polls = 0

\* No view was computed yet.
NoView ==
    /\ files = <<>>
    /\ tree = {}
    /\ flat = <<>>
    /\ relative_path = <<>>
    /\ ignore_patterns = <<>>
    /\ decision = "none"
    /\ folder = {}
    /\ local_tree = <<>>

Init ==
    /\ variant \in Variants
    /\ ignored = (IF variant = "BUENA" THEN 0..MaxItems ELSE {})
    /\ Idle
    /\ SinkEmpty
    /\ NoView

\* ------------------------------------------------------- upload_files ----
\* The first validation upload_files fails, in the order of its tests;
\* "any(os.scandir(folder_path))" (os.listdir in app4) sees every file, the
\* ignored ones too.
FirstFailure(v, jb) ==
    IF ~jb.dirOK THEN "invalid_folder"
    ELSE IF ~jb.repoOK THEN "invalid_repo"
    ELSE IF ~jb.tokenOK THEN "token_required"
    ELSE IF RejectsEmptyFolder(v) /\ jb.scan = <<>> THEN "empty_folder"
    ELSE "none"

\* app3 and app4 return "Repository ID and Hugging Face Token are required."
\* for an empty token without calling log().
LogsRejection(v, r) == ~(v \in {"app3", "app4"} /\ r = "token_required")

\* The status a rejection stands for: app4 skips an empty folder
\* ("No files to upload ... Skipping..."), every other rejection is an error.
RejectionStatus(v, r) ==
    IF v = "app4" /\ r = "empty_folder" THEN "Skipped" ELSE "Failed"

\* The run ends: its thread (or handler) returns, leaving "with upload_lock".
End(j, status) ==
    /\ pc' = [pc EXCEPT ![j] = "done"]
    /\ final' = [final EXCEPT ![j] = status]
    /\ upload_lock' = IF upload_lock = j THEN "free" ELSE upload_lock

\* appBUENA: upload_files resets the flag and goes straight to authenticate.
upload_files_BUENA(j, jb) ==
    /\ cancel_event' = FALSE
    /\ pc' = [pc EXCEPT ![j] = "auth"]
    /\ UNCHANGED <<listing, trace, logs, final, upload_lock, uploading>>

\* app2, app3, app4, InfiniteStorageFace: cancellation test, validation, then
\* the worker thread (or, in app4, the rest of the handler).
upload_files_checked(j, jb) ==
    LET r == FirstFailure(variant, jb) IN
    /\ UNCHANGED <<listing, cancel_event, uploading>>
    /\ IF cancel_event
       THEN /\ logs' = [logs EXCEPT ![j] = <<Msg("cancelled", 0)>>]
            /\ End(j, "Cancelled")
            /\ UNCHANGED trace
       ELSE IF r # "none"
       THEN /\ logs' = [logs EXCEPT ![j] =
                          IF LogsRejection(variant, r) THEN <<Msg(r, 0)>>
                          ELSE <<>>]
            /\ trace' = [trace EXCEPT ![j] = <<Call("validate", r, 0)>>]
            /\ End(j, RejectionStatus(variant, r))
       ELSE /\ trace' = [trace EXCEPT ![j] = <<Call("validate", "ok", 0)>>]
            /\ pc' = [pc EXCEPT ![j] = IF Threaded(variant) THEN "start"
                                       ELSE "auth"]
            /\ UNCHANGED <<logs, final, upload_lock>>

\* streamlit_app main(): the busy test on st.session_state.uploading, then
\* the logs and the flag are cleared, upload_files runs and its status is
\* logged.  log() takes upload_lock: when the new thread takes the lock
\* before log(status) does, the status is never logged.
upload_files_streamlit(j, jb) ==
    LET r == FirstFailure(variant, jb)
        cleared == [w \in Writers |-> <<>>] IN
    /\ UNCHANGED listing
    /\ IF uploading
       THEN /\ End(j, "Busy")
            /\ UNCHANGED <<trace, logs, cancel_event, uploading>>
       ELSE /\ cancel_event' = FALSE
            /\ IF r # "none"
               THEN /\ logs' = [cleared EXCEPT ![j] =
                                  <<Msg(r, 0), Msg("status", 0)>>]
                    /\ trace' = [trace EXCEPT ![j] = <<Call("validate", r, 0)>>]
                    /\ End(j, "Failed")
                    /\ UNCHANGED uploading
               ELSE /\ trace' = [trace EXCEPT ![j] =
                                   <<Call("validate", "ok", 0)>>]
                    /\ UNCHANGED final
                    /\ \/ /\ logs' = [cleared EXCEPT ![j] =
                                        <<Msg("status", 0)>>]
                          /\ pc' = [pc EXCEPT ![j] = "start"]
                          /\ UNCHANGED <<upload_lock, uploading>>
                       \/ /\ upload_lock = "free"
                          /\ logs' = cleared
                          /\ pc' = [pc EXCEPT ![j] = "auth"]
                          /\ upload_lock' = j
                          /\ uploading' = TRUE

upload_files(j) ==
    /\ pc[j] = "idle"
    /\ j = "B" => pc["A"] # "idle"
    /\ \E jb \in JobInputs(variant, j) :
          /\ job' = [job EXCEPT ![j] = jb]
          /\ IF variant = "BUENA" THEN upload_files_BUENA(j, jb)
             ELSE IF variant = "streamlit" THEN upload_files_streamlit(j, jb)
             ELSE upload_files_checked(j, jb)
    /\ UNCHANGED <<variant, ignored, idx, future, answer>>

\* ------------------------------------------------------ cancel_upload ----
\* cancel_event.set() and a log message.  In streamlit_app the button only
\* acts while uploading is set, and its log() then waits for upload_lock,
\* which the run that set uploading holds.
cancel_upload ==
    /\ IF variant = "streamlit"
       THEN /\ uploading
            /\ ~cancel_event
            /\ UNCHANGED logs
       ELSE /\ Len(logs["ui"]) < MaxCancels
            /\ logs' = [logs EXCEPT !["ui"] =
                          Append(@, Msg("cancel_requested", 0))]
    /\ cancel_event' = TRUE
    /\ UNCHANGED <<variant, ignored, pc, job, listing, idx, trace, final, future,
                   answer, upload_lock, uploading>>

\* ----------------------------------------------------- upload_process ----
\* The worker thread starts: "with upload_lock:" in app2, app3 and
\* streamlit_app (which then sets uploading), nothing in InfiniteStorageFace.
upload_process(j) ==
    /\ pc[j] = "start"
    /\ Locked(variant) => upload_lock = "free"
    /\ upload_lock' = IF Locked(variant) THEN j ELSE upload_lock
    /\ uploading' = IF variant = "streamlit" THEN TRUE ELSE uploading
    /\ pc' = [pc EXCEPT ![j] = "auth"]
    /\ UNCHANGED <<variant, ignored, job, listing, idx, trace, logs, final, future,
                   answer, cancel_event>>

\* Where a run goes once authenticate succeeded.
AfterAuthenticate(v) == IF ChecksExistence(v) THEN "exists" ELSE "create"

\* Where a run goes once the repository is there: appBUENA tests the folder
\* only now, the others start the transfer.
AfterRepository(v) == IF v = "BUENA" THEN "validate" ELSE "dispatch"

\* A caller that would not look at what authenticate returned.
AuthUnchecked(r) == TRUE

\* "if not success: return" after authenticate(token): the run goes on only
\* when login returned.
AuthSucceeded(r) == r = "ok"

\* authenticate(token): no Gateway call for an empty token, else login(token).
\* In streamlit_app the log() that follows login waits for upload_lock, which
\* the calling thread holds: the thread stops there.
authenticate(j) ==
    /\ pc[j] = "auth"
    /\ UNCHANGED <<variant, ignored, job, listing, idx, future, answer, cancel_event,
                   uploading>>
    /\ IF ~job[j].tokenOK
       THEN /\ logs' = [logs EXCEPT ![j] = Append(@, Msg("token_required", 0))]
            /\ End(j, "Failed")
            /\ UNCHANGED trace
       ELSE \E r \in {"ok", "error"} :
            /\ trace' = [trace EXCEPT ![j] = Append(@, Call("authenticate", r, 0))]
            /\ IF variant = "streamlit"
               THEN /\ pc' = [pc EXCEPT ![j] = "blocked"]
                    /\ UNCHANGED <<logs, final, upload_lock>>
               ELSE IF AuthSucceeded(r)
               THEN /\ logs' = [logs EXCEPT ![j] =
                                  Append(@, Msg(IF r = "ok" THEN "auth_ok"
                                                ELSE "auth_failed", 0))]
                    /\ pc' = [pc EXCEPT ![j] = AfterAuthenticate(variant)]
                    /\ UNCHANGED <<final, upload_lock>>
               ELSE /\ logs' = [logs EXCEPT ![j] = Append(@, Msg("auth_failed", 0))]
                    /\ End(j, "Failed")

\* -------------------------------------------- create_repo_if_not_exists ----
\* "except Exception:" after api.list_repo_files: every error of the
\* existence check leads to create_repo.
ExistenceErrorCreates(r) == r \in {"notfound", "error"}

\* api.list_repo_files(repo_id, ...): the existence check.  It returns, or
\* raises because there is no such repository ("notfound"), or raises for
\* another reason ("error": the network, the token's rights).
list_repo_files(j) ==
    /\ pc[j] = "exists"
    /\ UNCHANGED <<variant, ignored, job, listing, idx, final, future, cancel_event,
                   upload_lock, uploading>>
    /\ \E r \in {"ok", "notfound", "error"} :
         /\ trace' = [trace EXCEPT ![j] =
                        Append(@, Call("exists", IF r = "ok" THEN "ok"
                                                 ELSE "error", 0))]
         /\ answer' = [answer EXCEPT ![j] = r]
         /\ IF ExistenceErrorCreates(r)
            THEN /\ logs' = [logs EXCEPT ![j] =
                               IF LogsMissingRepo(variant)
                               THEN Append(@, Msg("repo_missing", 0)) ELSE @]
                 /\ pc' = [pc EXCEPT ![j] = "create"]
            ELSE /\ logs' = [logs EXCEPT ![j] = Append(@, Msg("repo_exists", 0))]
                 /\ pc' = [pc EXCEPT ![j] = AfterRepository(variant)]

\* A create_repo call without the exist_ok argument (its default).
exist_ok_default == FALSE

\* Every create_repo call of the repository passes exist_ok=True.
exist_ok == TRUE

\* Whether create_repo raises: with exist_ok the Gateway answers a
\* repository that already exists (HTTP 409) by returning normally.
CreateRaises(r) == r = "error" \/ (r = "conflict" /\ ~exist_ok)

\* create_repo(repo_id, ..., exist_ok=True): the repository is created
\* ("created"), or exists by now ("conflict"), or the call fails ("error").
create_repo(j) ==
    /\ pc[j] = "create"
    /\ UNCHANGED <<variant, ignored, job, listing, idx, future, cancel_event, uploading>>
    /\ \E r \in {"created", "conflict", "error"} :
         /\ trace' = [trace EXCEPT ![j] =
                        Append(@, Call("create", IF CreateRaises(r) THEN "error"
                                                 ELSE "ok", 0))]
         /\ answer' = [answer EXCEPT ![j] = r]
         /\ IF CreateRaises(r)
            THEN /\ logs' = [logs EXCEPT ![j] =
                               Append(@, Msg("repo_create_failed", 0))]
                 /\ End(j, "Failed")
            ELSE /\ logs' = [logs EXCEPT ![j] = Append(@, Msg("repo_created", 0))]
                 /\ pc' = [pc EXCEPT ![j] = AfterRepository(variant)]
                 /\ UNCHANGED <<final, upload_lock>>

\* appBUENA: "if not os.path.isdir(folder_path)" after the repository step,
\* then os.listdir(folder_path) when the folders are processed individually.
check_folder(j) ==
    /\ pc[j] = "validate"
    /\ answer' = [answer EXCEPT ![j] = "none"]
    /\ UNCHANGED <<variant, ignored, job, future, cancel_event, uploading>>
    /\ IF job[j].dirOK
       THEN /\ trace' = [trace EXCEPT ![j] = Append(@, Call("validate", "ok", 0))]
            /\ IF job[j].individually
               THEN /\ \E l \in Listings(MaxItems) :
                          listing' = [listing EXCEPT ![j] = l]
                    /\ idx' = [idx EXCEPT ![j] = 1]
                    /\ pc' = [pc EXCEPT ![j] = "loop"]
               ELSE /\ pc' = [pc EXCEPT ![j] = "dispatch"]
                    /\ UNCHANGED <<listing, idx>>
            /\ UNCHANGED <<logs, final, upload_lock>>
       ELSE /\ trace' = [trace EXCEPT ![j] =
                           Append(@, Call("validate", "invalid_folder", 0))]
            /\ logs' = [logs EXCEPT ![j] = Append(@, Msg("invalid_folder", 0))]
            /\ End(j, "Failed")
            /\ UNCHANGED <<listing, idx>>

\* ------------------------------------------------------------ uploads ----
\* IGNORE_PATTERNS_MAP resolves the selection: "Ignore .git" is ".git/**".
Resolved(jb) == IF jb.selected THEN <<".git/**">> ELSE <<>>

\* cleanup_before_upload (appBUENA) finds, for a selected pattern, a folder
\* of its name in the folder of the unit, and removes it with
\* shutil.rmtree.
Deletes(j, unit) ==
    variant = "BUENA" /\ Resolved(job[j]) # <<>> /\ unit \in ignored

\* What the start of a transfer logs: cleanup_before_upload's "Deleted" when
\* it found a folder to delete (appBUENA), then the "Uploading" message.
StartMessages(j, unit) ==
    (IF Deletes(j, unit) THEN <<Msg("deleted", unit)>>
     ELSE <<>>) \o <<Msg("upload_start", unit)>>

\* A path as the sequence of its pieces: names, the units' numbers, "/".
PathOf(name) == IF name = "" THEN <<>> ELSE <<name>>

\* The repo_id of upload_params: app3 appends the subfolder to it
\* (target_repo_id).
RepoIdOf(v, jb) ==
    <<"repo">> \o (IF v = "app3" /\ jb.subfolder # "" THEN <<"/", jb.subfolder>>
                   ELSE <<>>)

\* The ignore_patterns of upload_params: a fixed list in each variant but
\* appBUENA, whose upload_params have none.
IgnorePatternsOf(v) ==
    CASE v = "app2" -> <<"**/.git/**", "**/.DS_Store", "**/logs/*.txt">>
      [] v = "app3" -> <<"**/.git/**", "**/.DS_Store">>
      [] v = "app4" -> <<"**/.DS_Store">>
      [] v = "ISF" -> <<"**/.git/**", "**/logs/*.txt">>
      [] OTHER -> <<>>

\* upload_params for a unit of job jb (0: the whole folder): folder_path,
\* repo_id, path_in_repo, which only app4 and appBUENA pass, and
\* ignore_patterns.
UploadParams(v, jb, unit) ==
    [folder_path |-> <<"src">> \o (IF unit = 0 THEN <<>> ELSE <<"/", unit>>),
     repo_id |-> RepoIdOf(v, jb),
     path_in_repo |->
        IF v \in {"app4", "BUENA"}
        THEN PathOf(jb.subfolder) \o (IF unit = 0 THEN <<>> ELSE <<"/", unit>>)
        ELSE <<>>,
     ignore_patterns |-> IgnorePatternsOf(v)]

\* The run hands unit to the Gateway: upload_folder(**upload_params).
StartTransfer(j, unit) ==
    /\ trace' = [trace EXCEPT ![j] = Append(@, Call("upload", "pending", unit))]
    /\ logs' = [logs EXCEPT ![j] = @ \o StartMessages(j, unit)]
    /\ ignored' = IF Deletes(j, unit) THEN ignored \ {unit} ELSE ignored

\* An end of upload_files without the "return" that follows the log of the
\* cancellation: the run falls through to "Upload completed.".
FinishWithoutReturn(j) ==
    /\ logs' = [logs EXCEPT ![j] =
                  @ \o (IF cancel_event THEN <<Msg("cancelled", 0)>> ELSE <<>>)
                    \o <<Msg("completed", 0)>>]
    /\ End(j, "Completed")

\* The end of appBUENA's upload_files: the last test of cancel_event, else
\* "Upload completed. Check the logs for details."
Finish(j) ==
    IF cancel_event
    THEN /\ logs' = [logs EXCEPT ![j] = Append(@, Msg("cancelled", 0))]
         /\ End(j, "Cancelled")
    ELSE /\ logs' = [logs EXCEPT ![j] = Append(@, Msg("completed", 0))]
         /\ End(j, "Completed")

\* A loop that would hand a folder to a pool of threads and go on with the
\* next turn.
DispatchAndGoOn == "loop"

\* Where the loop stands once it has called upload_folder_structure: in the
\* call, which returns when upload_folder has returned or raised.
DispatchAndWait == "transfer"

\* appBUENA, process_individually: one turn of "for item in
\* os.listdir(folder_path)": the test of cancel_event, then
\* upload_folder_structure for a directory (up to the Gateway call), nothing
\* for a file; after the last item, the end of upload_files.  The test and
\* the call that follows it are one step: a cancellation between the two is
\* a cancellation during the transfer.
next_item(j) ==
    /\ pc[j] = "loop"
    /\ UNCHANGED <<variant, job, listing, future, answer, cancel_event,
                   uploading>>
    /\ IF idx[j] > Len(listing[j])
       THEN /\ Finish(j)
            /\ UNCHANGED <<ignored, idx, trace>>
       ELSE IF cancel_event
       THEN /\ logs' = [logs EXCEPT ![j] = Append(@, Msg("cancelled", 0))]
            /\ End(j, "Cancelled")
            /\ UNCHANGED <<ignored, idx, trace>>
       ELSE IF listing[j][idx[j]] = "dir"
       THEN /\ StartTransfer(j, idx[j])
            /\ pc' = [pc EXCEPT ![j] = DispatchAndWait]
            /\ UNCHANGED <<idx, final, upload_lock>>
       ELSE /\ idx' = [idx EXCEPT ![j] = @ + 1]
            /\ UNCHANGED <<ignored, pc, trace, logs, final, upload_lock>>

\* The whole folder as one transfer: upload_folder(**upload_params), with
\* run_as_future=True in InfiniteStorageFace.
upload_folder(j) ==
    /\ pc[j] = "dispatch"
    /\ StartTransfer(j, 0)
    /\ pc' = [pc EXCEPT ![j] = IF variant = "ISF" THEN "monitor" ELSE "transfer"]
    /\ future' = [future EXCEPT ![j] = IF variant = "ISF" THEN "running" ELSE @]
    /\ answer' = [answer EXCEPT ![j] = "none"]
    /\ UNCHANGED <<variant, job, listing, idx, final, cancel_event,
                   upload_lock, uploading>>

\* The result of the transfer in progress is written into the trace.
Returned(tr, r) == [tr EXCEPT ![Len(tr)].res = r]

\* What a run logs when upload_folder returns (r = "ok") or raises: the
\* message of the try/except around the call and, in appBUENA, the
\* "Uploaded folder" / "Uploaded the entire folder." of the caller, which
\* does not look at the outcome.
ReturnMessages(v, r, unit) ==
    <<Msg(IF r = "ok" THEN "upload_ok" ELSE "upload_failed", unit)>>
    \o (IF v = "BUENA" THEN <<Msg("uploaded", unit)>> ELSE <<>>)

\* The status of a run of app2, app3 or app4 whose transfer ended with r:
\* app4 returns "Upload completed. Check the logs for details." either way.
StatusAfterUpload(v, r) ==
    IF v = "app4" \/ r = "ok" THEN "Completed" ELSE "Failed"

\* A loop that would stop at the first transfer that failed.
ContinuesAfterSuccess(v, r) == v = "BUENA" /\ r = "ok"

\* Whether the run goes on after a transfer that ended with r.
ContinuesAfter(v, r) == v = "BUENA"

\* upload_folder returns or raises (every variant but InfiniteStorageFace).
upload_folder_return(j) ==
    /\ pc[j] = "transfer"
    /\ UNCHANGED <<variant, ignored, job, listing, future, answer, cancel_event,
                   uploading>>
    /\ \E r \in {"ok", "error"} :
         /\ trace' = [trace EXCEPT ![j] = Returned(@, r)]
         /\ logs' = [logs EXCEPT ![j] =
                       @ \o ReturnMessages(variant, r, trace[j][Len(trace[j])].unit)]
         /\ IF ContinuesAfter(variant, r)
            THEN /\ pc' = [pc EXCEPT ![j] = IF job[j].individually THEN "loop"
                                            ELSE "finish"]
                 /\ idx' = [idx EXCEPT ![j] = IF job[j].individually THEN @ + 1
                                              ELSE @]
                 /\ UNCHANGED <<final, upload_lock>>
            ELSE /\ End(j, StatusAfterUpload(variant, r))
                 /\ UNCHANGED idx

\* appBUENA, whole folder: the end of upload_files.
finish(j) ==
    /\ pc[j] = "finish"
    /\ Finish(j)
    /\ UNCHANGED <<variant, ignored, job, listing, idx, trace, future, answer,
                   cancel_event, uploading>>

\* InfiniteStorageFace: the transfer running in the background ends.
future_done(j) ==
    /\ future[j] = "running"
    /\ \E r \in {"ok", "error"} :
         /\ future' = [future EXCEPT ![j] = r]
         /\ trace' = [trace EXCEPT ![j] = Returned(@, r)]
    /\ UNCHANGED <<variant, ignored, pc, job, listing, idx, logs, final, answer,
                   cancel_event, upload_lock, uploading>>

\* InfiniteStorageFace: one test of "while not future.done()".  A future
\* that is done leads to the else branch, where future.result() returns or
\* raises into the outer except; one that is running leads to the test of
\* cancel_event (and break) and then to future.exception(), which waits.
monitor(j) ==
    /\ pc[j] = "monitor"
    /\ UNCHANGED <<variant, ignored, job, listing, idx, trace, future, answer,
                   cancel_event, uploading>>
    /\ IF future[j] = "ok"
       THEN /\ logs' = [logs EXCEPT ![j] = Append(@, Msg("upload_ok", 0))]
            /\ End(j, "Completed")
       ELSE IF future[j] = "error"
       THEN /\ logs' = [logs EXCEPT ![j] = Append(@, Msg("unexpected_error", 0))]
            /\ End(j, "Failed")
       ELSE IF cancel_event
       THEN /\ logs' = [logs EXCEPT ![j] = Append(@, Msg("cancel_observed", 0))]
            /\ End(j, "Cancelled")
       ELSE /\ pc' = [pc EXCEPT ![j] = "wait"]
            /\ UNCHANGED <<logs, final, upload_lock>>

\* InfiniteStorageFace: future.exception() returns once the transfer ended:
\* an exception is logged and the loop left; without one the loop ends and
\* its else branch logs the success.
future_exception(j) ==
    /\ pc[j] = "wait"
    /\ future[j] \in {"ok", "error"}
    /\ logs' = [logs EXCEPT ![j] =
                  Append(@, Msg(IF future[j] = "ok" THEN "upload_ok"
                                ELSE "upload_failed", 0))]
    /\ End(j, IF future[j] = "ok" THEN "Completed" ELSE "Failed")
    /\ UNCHANGED <<variant, ignored, job, listing, idx, trace, future, answer,
                   cancel_event, uploading>>

\* The runs; the order of their messages in the log sink is the subject of
\* LogSpec below.
Next ==
    \/ \E j \in Jobs : upload_files(j) /\ UNCHANGED <<sink, views>>
    \/ \E j \in Jobs : upload_process(j) /\ UNCHANGED <<sink, views>>
    \/ \E j \in Jobs : authenticate(j) /\ UNCHANGED <<sink, views>>
    \/ \E j \in Jobs : list_repo_files(j) /\ UNCHANGED <<sink, views>>
    \/ \E j \in Jobs : create_repo(j) /\ UNCHANGED <<sink, views>>
    \/ \E j \in Jobs : check_folder(j) /\ UNCHANGED <<sink, views>>
    \/ \E j \in Jobs : next_item(j) /\ UNCHANGED <<sink, views>>
    \/ \E j \in Jobs : upload_folder(j) /\ UNCHANGED <<sink, views>>
    \/ \E j \in Jobs : upload_folder_return(j) /\ UNCHANGED <<sink, views>>
    \/ \E j \in Jobs : finish(j) /\ UNCHANGED <<sink, views>>
    \/ \E j \in Jobs : future_done(j) /\ UNCHANGED <<sink, views>>
    \/ \E j \in Jobs : monitor(j) /\ UNCHANGED <<sink, views>>
    \/ \E j \in Jobs : future_exception(j) /\ UNCHANGED <<sink, views>>
    \/ cancel_upload /\ UNCHANGED <<sink, views>>

Spec == Init /\ [][Next]_vars

\* The steps of the thread of run j once upload_files was called, Gateway
\* calls that return included, and the step of the Gateway's own thread that
\* ends a transfer in the background.
RunStep(j) ==
    /\ \/ upload_process(j) \/ authenticate(j) \/ list_repo_files(j)
       \/ create_repo(j) \/ check_folder(j) \/ next_item(j)
       \/ upload_folder(j) \/ upload_folder_return(j) \/ finish(j)
       \/ monitor(j) \/ future_exception(j)
    /\ UNCHANGED <<sink, views>>

GatewayStep(j) == future_done(j) /\ UNCHANGED <<sink, views>>

\* The runs under a scheduler that lets every thread that can take a step
\* take one, and a Gateway whose every call returns.
FairSpec ==
    /\ Spec
    /\ \A j \in Jobs : WF_vars(RunStep(j)) /\ WF_vars(GatewayStep(j))

\* ----------------------------------------------------------- log sink ----
\* The programs whose log() and log readers are modelled here
\* (streamlit_app keeps its messages in st.session_state.logs).
SinkVariants == Variants \ {"streamlit"}

\* log() puts the message into log_queue.
HasQueue(v) == v \in {"app2", "app3", "app4", "ISF"}

\* log() appends the message to shared_logs.
HasList(v) == v # "ISF"

\* refresh_logs of app3 and app4 returns shared_logs[-100:].
LogWindow == 100

LastN(s, n) == IF Len(s) <= n THEN s ELSE SubSeq(s, Len(s) - n + 1, Len(s))

\* The number of messages thread w has logged.
LoggedBy(w) == Cardinality({i \in 1..Len(logged) : logged[i][1] = w})

LogInit ==
    /\ variant \in SinkVariants
    /\ ignored = {}
    /\ Idle
    /\ SinkEmpty
    /\ NoView

\* Thread w calls log(message): the first store of the variant is written
\* (log_queue.put, or shared_logs.append in appBUENA).
log(w) ==
    /\ logging[w] = <<>>
    /\ LoggedBy(w) < MaxLogged
    /\ LET m == <<w, LoggedBy(w) + 1>> IN
         /\ logged' = Append(logged, m)
         /\ log_queue' = IF HasQueue(variant) THEN Append(log_queue, m)
                         ELSE log_queue
         /\ shared_logs' = IF HasQueue(variant) THEN shared_logs
                           ELSE Append(shared_logs, m)
         /\ logging' = IF HasQueue(variant) /\ HasList(variant)
                       THEN [logging EXCEPT ![w] = <<m>>] ELSE logging
    /\ UNCHANGED <<variant, run, views, polled, polls>>

\* Thread w goes on in log(): shared_logs.append(message) after the put.
log_append(w) ==
    /\ logging[w] # <<>>
    /\ shared_logs' = shared_logs \o logging[w]
    /\ logging' = [logging EXCEPT ![w] = <<>>]
    /\ UNCHANGED <<variant, run, views, log_queue, logged, polled, polls>>

\* The log reader behind "Refresh Logs": update_logs of InfiniteStorageFace
\* empties log_queue; update_logs of app2 and refresh_logs of appBUENA
\* return the whole of shared_logs, refresh_logs of app3 and app4 its last
\* LogWindow messages.
poll_logs ==
    /\ polls < MaxPolls
    /\ polls' = polls + 1
    /\ IF variant = "ISF"
       THEN /\ polled' = polled \o log_queue
            /\ log_queue' = <<>>
       ELSE /\ polled' = polled \o
                  (IF variant \in {"app3", "app4"}
                   THEN LastN(shared_logs, LogWindow) ELSE shared_logs)
            /\ UNCHANGED log_queue
    /\ UNCHANGED <<variant, run, views, shared_logs, logging, logged>>

LogNext ==
    \/ \E w \in Jobs : log(w)
    \/ \E w \in Jobs : log_append(w)
    \/ poll_logs

LogSpec == LogInit /\ [][LogNext]_vars

\* -------------------------------------------------------- remote tree ----
\* The characters of a file path: a letter and the separator.
Chars == {"a", "/"}

\* The sequences over S of at most n elements.
RECURSIVE SeqsUpTo(_, _)
SeqsUpTo(S, n) ==
    IF n = 0 THEN {<<>>}
    ELSE SeqsUpTo(S, n - 1) \cup
         {Append(q, x) : q \in {t \in SeqsUpTo(S, n - 1) : Len(t) = n - 1},
                         x \in S}

\* The file paths (keys) a listing can hold, and the listings.
Keys == SeqsUpTo(Chars, MaxKeyLen) \ {<<>>}

FileLists == SeqsUpTo(Keys, MaxFiles)

\* file.split('/'): the segments of a path.
RECURSIVE Split(_)
Split(k) ==
    IF k = <<>> THEN << <<>> >>
    ELSE LET rest == Split(Tail(k)) IN
         IF Head(k) = "/" THEN << <<>> >> \o rest
         ELSE << <<Head(k)>> \o Head(rest) >> \o Tail(rest)

\* The nodes on the way to the node parts.
Prefixes(parts) == {SubSeq(parts, 1, n) : n \in 1..Len(parts)}

\* An insertion that would replace the sub-tree of every node on its way
\* (current[part] = {} in place of setdefault).
InsertOverwriting(t, parts) ==
    {n \in t : n[1] # parts[1]} \cup Prefixes(parts)

\* "for part in parts: current = current.setdefault(part, {})": the nodes of
\* the tree (a node is the sequence of the segments that lead to it) after
\* the insertion of one path.
Insert(t, parts) == t \cup Prefixes(parts)

\* "for file in files": the tree of a listing.
RECURSIVE BuildTree(_)
BuildTree(fs) ==
    IF fs = <<>> THEN {}
    ELSE Insert(BuildTree(SubSeq(fs, 1, Len(fs) - 1)), Split(fs[Len(fs)]))

\* build_tree prints a node as a file when its sub-tree is empty.
Leaves(t) ==
    {n \in t : ~\E m \in t : Len(m) = Len(n) + 1 /\ SubSeq(m, 1, Len(n)) = n}

\* The path of a node: its segments joined by the separator.
RECURSIVE Join(_)
Join(parts) ==
    IF Len(parts) = 1 THEN parts[1]
    ELSE parts[1] \o <<"/">> \o Join(Tail(parts))

\* The leaves of the tree as paths.
Flatten(t) == {Join(n) : n \in Leaves(t)}

TreeInit ==
    /\ variant \in {"app3", "app4", "BUENA"}
    /\ ignored = {}
    /\ Idle
    /\ SinkEmpty
    /\ files \in FileLists
    /\ tree = {}
    /\ flat = <<>>
    /\ relative_path = <<>>
    /\ ignore_patterns = <<>>
    /\ decision = "none"
    /\ folder = {}
    /\ local_tree = <<>>

\* get_remote_tree on the listing, and the leaves of its tree read back.
get_remote_tree ==
    /\ flat = <<>>
    /\ tree' = BuildTree(files)
    /\ flat' = <<Flatten(tree')>>
    /\ UNCHANGED <<variant, run, sink, files, filter, local>>

TreeNext == get_remote_tree

TreeSpec == TreeInit /\ [][TreeNext]_vars

\* ======================================================== properties ====
\* The Gateway calls of run j, in order (the trace without the validation).
GatewayCalls(j) == SelectSeq(trace[j], LAMBDA c : c.op # "validate")

\* The positions of the trace of run j that hold a call of op.
Positions(j, op) == {i \in 1..Len(trace[j]) : trace[j][i].op = op}

Submitted(j) == pc[j] # "idle"

Invalid(jb) == ~jb.dirOK \/ ~jb.repoOK \/ ~jb.tokenOK

\* Run j was told of the cancellation: it logged "Upload has been cancelled."
\* or "Upload has been cancelled by the user."
Observed(j) ==
    \E i \in 1..Len(logs[j]) : logs[j][i][1] \in {"cancelled", "cancel_observed"}

\* ---------------------------------------------------------------- C1 ----
\* C1: a job whose source path is not a directory, whose repository
\* identifier is malformed or whose token is empty makes no Gateway call,
\* and the run that validated it ends as Failed.
C1_InvalidJobMakesNoGatewayCall ==
    \A j \in Jobs :
        (Submitted(j) /\ Invalid(job[j])) =>
            /\ GatewayCalls(j) = <<>>
            /\ (pc[j] = "done" /\ trace[j] # <<>>) => final[j] = "Failed"

\* ---------------------------------------------------------------- C2 ----
\* The Gateway refused the token of run j.
AuthFailed(j) ==
    \E i \in Positions(j, "authenticate") : trace[j][i].res = "error"

Phase(op) ==
    CASE op = "validate" -> 1
      [] op = "authenticate" -> 2
      [] op \in {"exists", "create"} -> 3
      [] op = "upload" -> 4

\* C3: a run walks Validating, Authenticating, EnsuringRepository, Uploading
\* in that order: its trace starts with the validation, the phase never
\* goes back and never skips, and a new phase starts only after the step
\* before it succeeded (create counts for a failed existence check).
C3_FixedPhaseOrder ==
    \A j \in Jobs :
        LET t == trace[j] IN
        /\ t # <<>> => Phase(t[1].op) = 1
        /\ \A i \in 2..Len(t) :
              /\ Phase(t[i].op) >= Phase(t[i - 1].op)
              /\ Phase(t[i].op) <= Phase(t[i - 1].op) + 1
              /\ Phase(t[i].op) > Phase(t[i - 1].op) => t[i - 1].res = "ok"
              /\ Phase(t[i].op) \in {1, 2} =>
                    Phase(t[i].op) > Phase(t[i - 1].op)

\* ---------------------------------------------------------------- C4 ----
\* C4: a run reaches the create_repo call only from an existence check that
\* failed because there is no such repository; after an existence check
\* that succeeded, or that failed for another reason, it does not create.
C4_CreateOnlyWhenNotFound ==
    \A j \in Jobs : pc[j] = "create" => answer[j] = "notfound"

\* ---------------------------------------------------------------- C5 ----
\* The last Gateway call of run j is create_repo.
JustCreated(j) ==
    /\ trace[j] # <<>>
    /\ trace[j][Len(trace[j])].op = "create"

\* C5: a create_repo that finds the repository already there (another
\* client created it since the existence check) counts as success: the run
\* has not failed and goes on towards the upload.  A create_repo that fails
\* for another reason ends the run as Failed, without any upload; and no
\* run uploads before the repository step succeeded.
C5_ConflictOnCreateIsSuccess ==
    \A j \in Jobs :
        /\ (JustCreated(j) /\ answer[j] = "conflict") =>
              /\ trace[j][Len(trace[j])].res = "ok"
              /\ pc[j] \in {"validate", "dispatch"}
              /\ final[j] = "none"
        /\ (JustCreated(j) /\ answer[j] = "error") =>
              /\ pc[j] = "done"
              /\ final[j] = "Failed"
        /\ Positions(j, "upload") # {} =>
              \E i \in Positions(j, "exists") \cup Positions(j, "create") :
                  trace[j][i].res = "ok"

C5_Witness ==
    \E j \in Jobs :
        /\ JustCreated(j)
        /\ answer[j] = "conflict"
        /\ pc[j] = "dispatch"

\* ---------------------------------------------------------------- C6 ----
\* The units of job j: the directories of the listing when the folders are
\* processed individually (a unit is named by its position), else the whole
\* folder (unit 0).
Units(j) ==
    IF job[j].individually
    THEN {u \in 1..Len(listing[j]) : listing[j][u] = "dir"}
    ELSE {0}

Dispatched(j, u) == \E i \in Positions(j, "upload") : trace[j][i].unit = u

\* The transfers of run j that the Gateway failed.
FailedUploads(j) == {i \in Positions(j, "upload") : trace[j][i].res = "error"}

\* C6: a unit whose upload raised is logged as failed, and the run goes on:
\* when the run has ended without having observed a cancellation, every
\* unit after the failed one was dispatched.  (InfiniteStorageFace hands
\* its only unit to a future; what it logs of it is not part of this claim.)
C6_FailedUnitDoesNotStopRun ==
    \A j \in Jobs : \A i \in FailedUploads(j) :
        LET u == trace[j][i].unit IN
        /\ variant # "ISF" =>
              \E k \in 1..Len(logs[j]) : logs[j][k] = Msg("upload_failed", u)
        /\ (pc[j] = "done" /\ ~Observed(j)) =>
              \A w \in Units(j) : w > u => Dispatched(j, w)

\* A failed unit followed by a unit that succeeded.
C6_Witness ==
    \E j \in Jobs : \E i \in FailedUploads(j) :
        \E k \in Positions(j, "upload") :
            /\ k > i
            /\ trace[j][k].res = "ok"
            /\ pc[j] = "done"

\* ---------------------------------------------------------------- C7 ----
\* C7: a run that ended after a transfer failed, and that was not
\* cancelled, ended as Failed.
C7_FailedUnitMeansFailed ==
    \A j \in Jobs :
        (pc[j] = "done" /\ FailedUploads(j) # {} /\ final[j] # "Cancelled")
            => final[j] = "Failed"

\* ---------------------------------------------------------------- C8 ----
\* Run j hands a unit to the Gateway in this step.
Dispatches(j) ==
    /\ Len(trace'[j]) = Len(trace[j]) + 1
    /\ trace'[j][Len(trace'[j])].op = "upload"

\* C8: no unit is handed to the Gateway while the cancellation flag is set.
C8_NoDispatchOnceCancelled ==
    [][\A j \in Jobs : Dispatches(j) => ~cancel_event]_vars

\* ---------------------------------------------------------------- C9 ----
\* C9: a run that observed the cancellation has ended, as Cancelled,
\* whatever its transfers did before.
C9_ObservedCancellationEndsCancelled ==
    \A j \in Jobs : Observed(j) => (pc[j] = "done" /\ final[j] = "Cancelled")

\* A run cancelled after one of its units went through.
C9_Witness ==
    \E j \in Jobs :
        /\ Observed(j)
        /\ \E i \in Positions(j, "upload") : trace[j][i].res = "ok"
        /\ pc[j] = "done"

\* --------------------------------------------------------------- C10 ----
\* Run k is between EnsuringRepository and Uploading.
Active(k) ==
    pc[k] \in {"exists", "create", "validate", "dispatch", "loop", "transfer",
               "finish", "monitor", "wait"}

\* C10: a valid job submitted while the other run is active is rejected at
\* once as Busy.
C10_BusyRejection ==
    [][\A j \in Jobs :
          (/\ pc[j] = "idle"
           /\ pc'[j] # "idle"
           /\ ~Invalid(job'[j])
           /\ \E k \in Jobs \ {j} : Active(k))
          => final'[j] = "Busy"]_vars

\* --------------------------------------------------------------- C11 ----
\* C11: at most one run is between EnsuringRepository and the end of
\* Uploading at any time.
C11_AtMostOneRunInFlight ==
    Cardinality({j \in Jobs : Active(j)}) <= 1

\* --------------------------------------------------------------- C12 ----
\* Job j is submitted in this step.
Submits(j) == pc[j] = "idle" /\ pc'[j] # "idle"

\* Run k went through the validation and has ended.
Ended(k) == pc[k] = "done" /\ trace[k] # <<>>

\* C12: a valid job submitted after another run has ended is not rejected
\* as cancelled.
C12_NewJobAfterTerminalState ==
    [][\A j \in Jobs :
          (/\ Submits(j)
           /\ ~Invalid(job'[j])
           /\ \E k \in Jobs \ {j} : Ended(k))
          => final'[j] # "Cancelled"]_vars

\* --------------------------------------------------------------- C13 ----
\* The listing of job j holds files that lie directly in the source folder.
LooseFiles(j) == \E i \in 1..Len(listing[j]) : listing[j][i] = "file"

\* C13: a run that processed the folders one by one and completed has
\* dispatched one unit per child directory, each once, and one more unit
\* for the loose files of the source folder when there are any.
C13_OneUnitPerChildAndLooseFiles ==
    \A j \in Jobs :
        (pc[j] = "done" /\ job[j].individually /\ final[j] = "Completed") =>
            /\ \A u \in Units(j) :
                  Cardinality({i \in Positions(j, "upload") :
                                  trace[j][i].unit = u}) = 1
            /\ Cardinality(Positions(j, "upload")) =
                  Cardinality(Units(j)) + (IF LooseFiles(j) THEN 1 ELSE 0)

\* --------------------------------------------------------------- C14 ----
\* Every file of the source folder of job j is matched by the ignore
\* patterns.
EmptyAfterFilter(j) ==
    Submitted(j) /\ ~Invalid(job[j]) /\ job[j].scan = <<"ignored">>

\* C14: a run whose source folder holds nothing but ignored files makes no
\* Gateway upload call and does not end as Completed.
C14_EmptyAfterFilterIsSkipped ==
    \A j \in Jobs :
        EmptyAfterFilter(j) =>
            /\ Positions(j, "upload") = {}
            /\ pc[j] = "done" => final[j] # "Completed"

\* --------------------------------------------------------------- C15 ----
IsPrefix(s, t) == Len(s) <= Len(t) /\ SubSeq(t, 1, Len(s)) = s

\* C15: the polls return the logged messages in the order they were logged,
\* each once: what the polls returned so far, put end to end, is the
\* beginning of the sequence of logged messages.
C15_PollsReturnEachMessageOnce == IsPrefix(polled, logged)

\* -------------------------------------------------------- path filter ----
\* The patterns of the programs over the letter a: "**/.DS_Store",
\* "**/.git/**", "**/logs/*.txt", and the patterns "*.log" and "log".
Patterns ==
    { <<"*", "*", "/", ".", "a">>,
      <<"*", "*", "/", ".", "a", "/", "*", "*">>,
      <<"*", "*", "/", "a", "/", "*", ".", "a">>,
      <<"*", ".", "a">>,
      <<"a">> }

PatternLists == SeqsUpTo(Patterns, MaxPatterns)

\* os.path.relpath of a file: segments that are not empty, ".", or "..".
RelativePaths ==
    {q \in SeqsUpTo({"a", ".", "/"}, MaxPathLen) \ {<<>>} :
        \A i \in 1..Len(Split(q)) :
            Split(q)[i] \notin {<<>>, <<".">>, <<".", ".">>}}

\* pattern.replace("**/", "").
RECURSIVE RemoveMarker(_)
RemoveMarker(p) ==
    IF p = <<>> THEN <<>>
    ELSE IF Len(p) >= 3 /\ SubSeq(p, 1, 3) = <<"*", "*", "/">>
         THEN RemoveMarker(SubSeq(p, 4, Len(p)))
         ELSE <<Head(p)>> \o RemoveMarker(Tail(p))

\* re.compile raises for a repetition of nothing or of a repetition.
Compiles(re) ==
    \A i \in 1..Len(re) : re[i] = "*" => (i > 1 /\ re[i - 1] # "*")

\* One character against one atom of a regular expression.
AtomMatches(a, c) == a = "." \/ a = c

\* re.match(re, s): a regular expression of characters, "." and "*"
\* matched at the start of s, whatever follows.
RECURSIVE MatchHere(_, _)
RECURSIVE MatchStar(_, _, _)
MatchHere(re, s) ==
    IF re = <<>> THEN TRUE
    ELSE IF Len(re) >= 2 /\ re[2] = "*"
         THEN MatchStar(re[1], SubSeq(re, 3, Len(re)), s)
         ELSE /\ s # <<>>
              /\ AtomMatches(re[1], s[1])
              /\ MatchHere(Tail(re), Tail(s))

MatchStar(a, re, s) ==
    \/ MatchHere(re, s)
    \/ s # <<>> /\ AtomMatches(a, s[1]) /\ MatchStar(a, re, Tail(s))

\* "any(re.match(pattern.replace("**/", ""), relative_path) for pattern in
\* ignore_patterns)": the patterns are tried in order, the first that
\* matches ends the search, one that does not compile raises.
RECURSIVE AnyMatch(_, _)
AnyMatch(ps, q) ==
    IF ps = <<>> THEN "included"
    ELSE LET re == RemoveMarker(Head(ps)) IN
         IF ~Compiles(re) THEN "error"
         ELSE IF MatchHere(re, q) THEN "excluded"
         ELSE AnyMatch(Tail(ps), q)

FilterInit ==
    /\ variant = "app4"
    /\ ignored = {}
    /\ Idle
    /\ SinkEmpty
    /\ files = <<>>
    /\ tree = {}
    /\ flat = <<>>
    /\ relative_path \in RelativePaths
    /\ ignore_patterns \in PatternLists
    /\ decision = "none"
    /\ folder = {}
    /\ local_tree = <<>>

\* has_files_to_upload decides on one file.
has_files_to_upload ==
    /\ decision = "none"
    /\ decision' = AnyMatch(ignore_patterns, relative_path)
    /\ UNCHANGED <<variant, run, sink, files, tree, flat, relative_path,
                   ignore_patterns, local>>

FilterNext == has_files_to_upload

FilterSpec == FilterInit /\ [][FilterNext]_vars

\* --------------------------------------------------------- local tree ----
\* The names of the directories and files.
Names == {"a", "b"}

\* A directory or a file below the folder: the names that lead to it from
\* the folder, and what it is.
Node(path, kind) == [path |-> path, kind |-> kind]

\* The directory a node is in (<<>>: the folder itself).
Parent(path) == SubSeq(path, 1, Len(path) - 1)

\* The nodes that can be added to the nodes t: a name that its directory
\* does not hold yet, in the folder or in a directory of t.
Addable(t) ==
    {Node(Append(d, n), k) : d \in {<<>>} \cup {x.path : x \in {y \in t : y.kind = "dir"}},
                             n \in Names, k \in {"dir", "file"}}

RECURSIVE Folders(_)
Folders(n) ==
    IF n = 0 THEN {{}}
    ELSE LET smaller == Folders(n - 1) IN
         smaller \cup
         UNION {{t \cup {x} : x \in {y \in Addable(t) :
                                        \A z \in t : z.path # y.path}} :
                t \in {u \in smaller : Cardinality(u) = n - 1}}

\* The key get_local_tree makes for a directory that os.walk yields, level
\* directories below the folder: the indent, the folder icon and the
\* basename; the folder itself is "root".
DirLine(path) ==
    <<Len(path), "dir", IF path = <<>> THEN "root" ELSE path[Len(path)]>>

\* The key for a file of a directory: the indent of the directory and one
\* more, the file icon and the name.
FileLine(path) == <<Len(Parent(path)) + 1, "file", path[Len(path)]>>

\* "tree[tree_line] = {}" for every directory and "tree[...] = {}" for
\* every file of it: the keys of the dictionary.
LocalTreeKeys(t) ==
    {DirLine(<<>>)}
    \cup {DirLine(x.path) : x \in {y \in t : y.kind = "dir"}}
    \cup {FileLine(x.path) : x \in {y \in t : y.kind = "file"}}

LocalInit ==
    /\ variant \in {"app3", "app4", "BUENA"}
    /\ ignored = {}
    /\ Idle
    /\ SinkEmpty
    /\ files = <<>>
    /\ tree = {}
    /\ flat = <<>>
    /\ relative_path = <<>>
    /\ ignore_patterns = <<>>
    /\ decision = "none"
    /\ folder \in Folders(MaxNodes)
    /\ local_tree = <<>>

\* get_local_tree on the folder.
get_local_tree ==
    /\ local_tree = <<>>
    /\ local_tree' = <<LocalTreeKeys(folder)>>
    /\ UNCHANGED <<variant, run, sink, files, tree, flat, filter, folder>>

LocalNext == get_local_tree

LocalSpec == LocalInit /\ [][LocalNext]_vars

\* --------------------------------------------------------------- C16 ----
\* The keys of a listing.
KeysOf(fs) == {fs[i] : i \in 1..Len(fs)}

\* No path of the listing leads through another path of the listing (no
\* path is both a file and a directory).
PrefixFree(fs) ==
    \A i, k \in 1..Len(fs) :
        Split(fs[i]) \in Prefixes(Split(fs[k])) => fs[i] = fs[k]

\* C16 as stated: for every listing, the leaves of the remote tree read
\* back as paths are the keys of the listing.
C16_RoundTripEveryList ==
    flat # <<>> => flat[1] = KeysOf(files)

\* C16, amended: the leaves of the remote tree read back as paths are the
\* keys of the listing when no key of the listing is a path prefix of
\* another, which is the case of every listing of a repository.
C16_RoundTripPrefixFree ==
    (flat # <<>> /\ PrefixFree(files)) => flat[1] = KeysOf(files)

\* Two files in one directory, read back.
C16_Witness ==
    /\ flat # <<>>
    /\ Len(files) = 2
    /\ files[1] # files[2]
    /\ PrefixFree(files)
    /\ Split(files[1])[1] = Split(files[2])[1]
    /\ flat[1] = KeysOf(files)

\* --------------------------------------------------------------- C17 ----
\* One segment of a path against one segment of a pattern: "*" stands for
\* any characters of the segment.
RECURSIVE GlobSegment(_, _)
GlobSegment(g, seg) ==
    IF g = <<>> THEN seg = <<>>
    ELSE IF Head(g) = "*"
         THEN \/ GlobSegment(Tail(g), seg)
              \/ seg # <<>> /\ GlobSegment(g, Tail(seg))
         ELSE seg # <<>> /\ Head(g) = Head(seg) /\ GlobSegment(Tail(g), Tail(seg))

\* The segments of a path against the segments of a pattern: the recursive
\* marker "**" stands for zero or more segments.
RECURSIVE GlobPath(_, _)
GlobPath(gs, segs) ==
    IF gs = <<>> THEN segs = <<>>
    ELSE IF Head(gs) = <<"*", "*">>
         THEN \/ GlobPath(Tail(gs), segs)
              \/ segs # <<>> /\ GlobPath(gs, Tail(segs))
         ELSE /\ segs # <<>>
              /\ GlobSegment(Head(gs), Head(segs))
              /\ GlobPath(Tail(gs), Tail(segs))

\* Segment-boundary semantics: a pattern of one segment is matched against
\* the name of the file, any other pattern against the whole path, segment
\* by segment.
SegmentMatch(g, q) ==
    LET gs == Split(g)
        segs == Split(q)
    IN  IF Len(gs) = 1 THEN GlobSegment(gs[1], segs[Len(segs)])
        ELSE GlobPath(gs, segs)

MatchesSome(ps, q) == \E i \in 1..Len(ps) : SegmentMatch(ps[i], q)

\* C17: the path filter excludes a path if and only if the path matches at
\* least one pattern of the list under segment-boundary semantics.
C17_ExcludedIffSegmentMatch ==
    decision # "none" =>
        (decision = "excluded" <=> MatchesSome(ignore_patterns, relative_path))

\* --------------------------------------------------------------- C18 ----
\* Runs k and j were given the same job.
SameJob(k, j) ==
    /\ job[k].dirOK = job[j].dirOK
    /\ job[k].repoOK = job[j].repoOK
    /\ job[k].tokenOK = job[j].tokenOK
    /\ job[k].individually = job[j].individually
    /\ job[k].scan = job[j].scan
    /\ job[k].subfolder = job[j].subfolder
    /\ job[k].selected = job[j].selected
    /\ listing[k] = listing[j]

\* The Gateway gave runs k and j the same answer to the same call.
SameStub(k, j) ==
    \A a \in 1..Len(trace[k]), b \in 1..Len(trace[j]) :
        (trace[k][a].op = trace[j][b].op /\ trace[k][a].unit = trace[j][b].unit)
            => trace[k][a].res = trace[j][b].res

\* The statuses of the units of run j.
UnitStatuses(j) ==
    {<<trace[j][i].unit, trace[j][i].res>> : i \in Positions(j, "upload")}

\* Run j was submitted after run k had ended with the same job, both have
\* ended, run k was not cancelled, and the operator has not pressed "Cancel
\* Upload" since run j was submitted.
RanTwice(k, j) ==
    /\ pc[k] = "done" /\ pc[j] = "done"
    /\ k \in job[j].after
    /\ SameJob(k, j)
    /\ final[k] # "Cancelled" /\ ~Observed(k)
    /\ job[j].presses = Len(logs["ui"])

Acknowledged(j) ==
    IF Threaded(variant) THEN pc[j] # "idle" ELSE pc[j] = "done"

\* C19: the acknowledgement of a valid job is returned before the Gateway
\* calls of its run: no Gateway call of a run is made while the submitter
\* still waits for upload_files to return.
C19_AcknowledgedBeforeGatewayCalls ==
    \A j \in Jobs :
        (Submitted(j) /\ ~Invalid(job[j]) /\ GatewayCalls(j) # <<>>)
            => Acknowledged(j)

\* --------------------------------------------------------------- C20 ----
\* Run j ends in this step as Completed, Failed or Cancelled.
Terminates(j) ==
    /\ pc[j] # "done" /\ pc'[j] = "done"
    /\ final'[j] \in {"Completed", "Failed", "Cancelled"}

\* A transfer of run j gets its outcome in this step.
UnitOutcome(j) ==
    \E i \in Positions(j, "upload") :
        trace[j][i].res = "pending" /\ trace'[j][i].res # "pending"

\* C20: every step that ends a run, a validation rejection included, and
\* every step that gives a unit its outcome appends a message to the log.
C20_EveryOutcomeIsLogged ==
    [][\A j \in Jobs :
         (Terminates(j) \/ UnitOutcome(j)) => Len(logs'[j]) > Len(logs[j])]_vars

\* --------------------------------------------------------------- C21 ----
\* The transfers of run j that the Gateway has not ended yet.
InProgress(j) == {i \in Positions(j, "upload") : trace[j][i].res = "pending"}

\* C21: a run does not end while a transfer it handed to the Gateway is
\* still in progress.
C21_NoEndDuringTransfer ==
    \A j \in Jobs : pc[j] = "done" => InProgress(j) = {}

\* --------------------------------------------------------------- C22 ----
\* C22: a run has at most one transfer in progress, and the transfer in
\* progress is its latest Gateway call: no unit is dispatched before the
\* unit dispatched ahead of it has returned or raised.
C22_SequentialDispatch ==
    \A j \in Jobs :
        /\ Cardinality(InProgress(j)) <= 1
        /\ \A i \in InProgress(j) : i = Len(trace[j])

\* A run has dispatched its second unit while no other transfer of it is in
\* progress.
C22_Witness ==
    \E j \in Jobs :
        /\ Cardinality(Positions(j, "upload")) = 2
        /\ InProgress(j) = {Len(trace[j])}

\* --------------------------------------------------------------- C23 ----
\* The arguments of the Gateway upload call at position i of run j.
UploadCall(j, i) == UploadParams(variant, job[j], trace[j][i].unit)

\* C23: a run that uploads its folder as a whole and has reached the
\* transfer has made exactly one Gateway upload call, of the source folder
\* to the job's repository under the job's target path.
C23_WholeTreeIsOneCall ==
    \A j \in Jobs :
        (~job[j].individually /\ Positions(j, "upload") # {}) =>
            /\ Cardinality(Positions(j, "upload")) = 1
            /\ \A i \in Positions(j, "upload") :
                 /\ UploadCall(j, i).folder_path = <<"src">>
                 /\ UploadCall(j, i).repo_id = <<"repo">>
                 /\ UploadCall(j, i).path_in_repo = PathOf(job[j].subfolder)

\* --------------------------------------------------------------- C24 ----
\* The ignore patterns of job jb: the patterns resolved from its selection
\* where the job has one (appBUENA), the patterns of the variant elsewhere.
JobPatterns(v, jb) == IF v = "BUENA" THEN Resolved(jb) ELSE IgnorePatternsOf(v)

\* C24: every Gateway upload call of a run carries the ignore patterns
\* resolved from the job's selection.
C24_UploadCarriesIgnorePatterns ==
    \A j \in Jobs : \A i \in Positions(j, "upload") :
        UploadCall(j, i).ignore_patterns = JobPatterns(variant, job[j])

\* --------------------------------------------------------------- C25 ----
\* Run j logged a message of one of the kinds about unit u.
Reported(j, u, kinds) ==
    \E i \in 1..Len(logs[j]) : logs[j][i][2] = u /\ logs[j][i][1] \in kinds

\* The messages that report a unit as succeeded ("Upload completed for",
\* "Uploaded folder") and as failed.
SuccessKinds == {"upload_ok", "uploaded"}

FailureKinds == {"upload_failed", "unexpected_error"}

\* C25: a unit is reported as succeeded only if its Gateway upload call
\* returned without error; a unit whose call raised is, once the run has
\* ended, reported as failed, and is never reported as succeeded.
C25_SuccessOnlyWithoutError ==
    \A j \in Jobs : \A i \in Positions(j, "upload") :
        LET u == trace[j][i].unit
            r == trace[j][i].res
        IN  /\ Reported(j, u, SuccessKinds) => r = "ok"
            /\ (r = "error" /\ pc[j] = "done") => Reported(j, u, FailureKinds)

\* --------------------------------------------------------------- C26 ----
\* The elements of s are elements of t, in the order they have in t.
RECURSIVE IsSubsequence(_, _)
IsSubsequence(s, t) ==
    IF s = <<>> THEN TRUE
    ELSE IF t = <<>> THEN FALSE
    ELSE IF Head(s) = Head(t) THEN IsSubsequence(Tail(s), Tail(t))
    ELSE IsSubsequence(s, Tail(t))

\* No thread is between the two writes of log().
Quiescent == \A w \in Jobs : logging[w] = <<>>

\* C26: where log() writes two stores, shared_logs holds the messages in
\* the order in which they were put on log_queue, each of them once when no
\* thread is inside log().
C26_StoresInSameOrder ==
    (HasQueue(variant) /\ HasList(variant)) =>
        /\ IsSubsequence(shared_logs, logged)
        /\ Quiescent => shared_logs = logged

\* --------------------------------------------------------------- C27 ----
\* C27: the output of get_local_tree holds one entry for the folder, one
\* for every directory and one for every file below it.
C27_OneEntryPerNode ==
    local_tree # <<>> => Cardinality(local_tree[1]) = 1 + Cardinality(folder)

\* --------------------------------------------------------------- C28 ----
\* C28: no step of a run changes what the source folder holds: the folders
\* of the name of an ignore pattern stay where they are.
C28_SourceFolderUnchanged == [][ignored' = ignored]_vars

\* --------------------------------------------------------------- C29 ----
\* C29: a run that holds upload_lock eventually ends and has released it,
\* and (streamlit_app) the flag uploading eventually is False again.
C29_GuardEventuallyReleased ==
    /\ \A j \in Jobs : (upload_lock = j) ~> (pc[j] = "done" /\ upload_lock # j)
    /\ uploading ~> ~uploading

\* --------------------------------------------------------------- C30 ----
\* Run j is in Uploading: between the provisioning of the repository and
\* its end.
Uploading(j) ==
    pc[j] \in {"dispatch", "loop", "transfer", "monitor", "wait", "finish"}

\* C30: a cancellation signal that is set while a run is in Uploading and
\* has not observed it stays set, whatever else happens, the submission of
\* another job included.
C30_CancellationNotLost ==
    [][(cancel_event /\ \E j \in Jobs : Uploading(j) /\ ~Observed(j))
          => cancel_event']_vars

\* --------------------------------------------------------------- C31 ----
\* The repo_id that create_repo_if_not_exists is called with: the repo_id
\* argument of upload_files, in every variant.
EnsuredRepoId(v, jb) == <<"repo">>

\* C31: every Gateway upload call of a run names the repository that the
\* run checked or created, whatever the job's target path is.
C31_UploadsGoToEnsuredRepo ==
    \A j \in Jobs :
        \A i \in Positions(j, "upload") :
            UploadCall(j, i).repo_id = EnsuredRepoId(variant, job[j])

\* --------------------------------------------------------------- C32 ----
\* The target path joined with the name of a child directory by a single
\* separator; the name alone when the target path is empty.
JoinedWith(target, c) ==
    IF target = <<>> THEN <<c>> ELSE target \o <<"/", c>>

\* C32: when the folders are processed one by one, the destination of the
\* upload call for child directory c is the job's target path joined with c
\* by one separator, and c itself when the target path is empty.
C32_ChildDestinationIsJoined ==
    \A j \in Jobs :
        job[j].individually =>
            \A i \in Positions(j, "upload") :
                UploadCall(j, i).path_in_repo =
                    JoinedWith(PathOf(job[j].subfolder), trace[j][i].unit)

\* --------------------------------------------------------------- C33 ----
\* Run j has a thread: upload_files started it (Thread(target=
\* upload_process).start()) and upload_process did not return.
RunThread(j) == pc[j] \notin {"idle", "done"}

\* The thread of run j is inside "with upload_lock:", at or between the
\* Gateway calls of upload_process.
InGatewayCalls(j) ==
    pc[j] \in {"auth", "exists", "create", "dispatch", "transfer"}

\* main() finds "upload_button and not st.session_state.uploading" for run j
\* and upload_files starts its thread.
PassesBusyTest(j) == pc[j] = "idle" /\ RunThread(j)'

\* C33: in streamlit_app, uploading is True whenever a run thread is at its
\* Gateway calls, it is False whenever no run thread exists, and no run
\* passes the "not uploading" test while the thread of another run was
\* started and has not set the flag yet.
C33_UploadingIsAccurate ==
    /\ [](variant = "streamlit" =>
            /\ \A j \in Jobs : InGatewayCalls(j) => uploading
            /\ (\A j \in Jobs : ~RunThread(j)) => ~uploading)
    /\ [][variant = "streamlit" =>
            \A j \in Jobs :
                PassesBusyTest(j) =>
                    \A k \in Jobs \ {j} : ~(pc[k] = "start" /\ ~uploading)]_vars

====
